---- MODULE Spec2Model ----
(***************************************************************************)
(* Model of BLOG/dspblog.py: synthetic PPG generation, the notch /         *)
(* high-pass / low-pass cascade, the one-sided spectrum and the SNR        *)
(* evaluation.                                                             *)
(*                                                                         *)
(* Numbers.  Times and frequencies are exact rationals <<num, den>> with   *)
(* den > 0.  Sample values are fixed-point integers in units of            *)
(* 1/AmpScale.  np.sin is a fixed-point rational approximation.  The       *)
(* sample values that scipy's IIR filtering produces are not computed: a   *)
(* filtered array is carried as the base samples together with the list    *)
(* of coefficient sets applied to them (field ops), which determines it.   *)
(***************************************************************************)
EXTENDS Integers, Sequences, FiniteSets, TLC

VARIABLES
    pc,            \* position in the scenario being run
    err,           \* the exception that ended the run, "" when none
    duration,      \* the duration argument, in ticks of 1/DurDen seconds
    cfg,           \* the frequencies handed to the three filter functions
    rng,           \* np.random's process-wide generator state
    t,             \* the time grid returned by generate_ppg_signal
    heap,          \* the sample arrays allocated so far; a reference is an index
    noisy, clean, step1, step2, filtered,   \* references into heap, 0 = unbound
    log,           \* the filter calls made so far: stage, argument, result
    spec_noisy, spec_filtered,              \* results of compute_spectrum
    snr,           \* result of the SNR lines
    genNoisy, genClean,                     \* the arrays as the generator returned them
    gen1, gen2,    \* results of two successive generator calls
    dspec, dres,   \* a filter specification and the outcome of designing it
    sdata, sres,   \* a buffer and its spectrum
    ebuf, eres     \* three buffers and their quality evaluation

vars == <<pc, err, duration, cfg, rng, t, heap, noisy, clean, step1, step2,
          filtered, log, spec_noisy, spec_filtered, snr, genNoisy, genClean,
          gen1, gen2, dspec, dres, sdata, sres, ebuf, eres>>

----------------------------------------------------------------------------
(* Program constants *)

fs == 1000
nyquist == <<fs, 2>>

DefaultQ == 30
HpOrder == 4
LpOrder == 4

(* Bounds and resolutions of the model *)

DurDen == 2000        \* duration is duration/DurDen seconds
MaxDurTicks == 40     \* durations 1..MaxDurTicks ticks: buffers of 0..20 samples
MaxSeed == 1          \* initial generator states 0..MaxSeed
AmpScale == 100       \* one amplitude unit
QuarterRes == 500     \* phase steps per quarter turn in the sine approximation
MaxOrder == 4         \* filter orders -1..MaxOrder in the design scenario
MaxSpecLen == 4       \* buffer lengths 0..MaxSpecLen in the spectrum scenario
MaxEvalLen == 3       \* buffer lengths 1..MaxEvalLen in the evaluation scenario

----------------------------------------------------------------------------
(* Rationals <<n, d>>, d > 0 *)

RLt(a, b) == a[1] * b[2] < b[1] * a[2]
RLe(a, b) == a[1] * b[2] <= b[1] * a[2]
REq(a, b) == a[1] * b[2] = b[1] * a[2]
\* a / b for b > 0
RDiv(a, b) == <<a[1] * b[2], a[2] * b[1]>>

RECURSIVE SumSeq(_)
SumSeq(s) == IF s = <<>> THEN 0 ELSE Head(s) + SumSeq(Tail(s))

Abs(v) == IF v < 0 THEN -v ELSE v

\* largest r with r*r <= v, by bisection on lo..hi
RECURSIVE IsqrtIn(_, _, _)
IsqrtIn(v, lo, hi) ==
    IF lo >= hi THEN lo
    ELSE LET mid == (lo + hi + 1) \div 2
         IN IF mid * mid <= v THEN IsqrtIn(v, mid, hi) ELSE IsqrtIn(v, lo, mid - 1)

----------------------------------------------------------------------------
HalfRes == 2 * QuarterRes

(* np.sin / np.cos in fixed point.  The argument is given in turns         *)
(* (angle / 2 pi) as num/den with num >= 0, den > 0; the result is in      *)
(* units of 1/AmpScale.                                                    *)

Bhaskara(p) ==
    (AmpScale * 16 * p * (HalfRes - p))
        \div (5 * HalfRes * HalfRes - 4 * p * (HalfRes - p))

SinTurns(num, den) ==
    LET idx == ((2 * HalfRes * num) \div den) % (2 * HalfRes)
    IN IF idx < HalfRes THEN Bhaskara(idx) ELSE -Bhaskara(idx - HalfRes)

CosTurns(num, den) == SinTurns(4 * num + den, 4 * den)

\* sin(2 pi f tq) for the frequency fn/fd Hz at the time tq
SinAt(fn, fd, tq) == SinTurns(fn * tq[1], fd * tq[2])

----------------------------------------------------------------------------
(* np.random: the process-wide generator.  randn(n) takes n draws from     *)
(* the stream that the current state determines and advances the state.    *)

NextRng(s) == (s * 21 + 7) % 64

RECURSIVE RngAfter(_, _)
RngAfter(s, n) == IF n = 0 THEN s ELSE RngAfter(NextRng(s), n - 1)

\* a standard-normal draw, in tenths
DrawOf(s) == (s % 41) - 20

randn(s, n) == [ i \in 1..n |-> DrawOf(RngAfter(s, i)) ]

----------------------------------------------------------------------------
(* generate_ppg_signal *)

\* variant: the sample count rounded up instead of truncated
NumSamplesCeil(d) == (fs * d + DurDen - 1) \div DurDen

\* int(fs * duration)
NumSamples(d) == (fs * d) \div DurDen

\* np.linspace(0, duration, num): num points, both end points included
linspace(d, num) ==
    [ i \in 1..num |->
        IF num = 1 THEN <<0, 1>> ELSE <<(i - 1) * d, DurDen * (num - 1)>> ]

\* noisy = clean + baseline_drift + motion + powerline + hf_noise
SumNoisy(c, bd, mo, pl, hf) ==
    [ i \in 1..Len(c) |-> c[i] + bd[i] + mo[i] + pl[i] + hf[i] ]

generate_ppg_signal(s, d) ==
    LET n  == NumSamples(d)
        tt == linspace(d, n)
        c  == [ i \in 1..n |-> SinAt(5, 4, tt[i]) + (3 * SinAt(5, 2, tt[i])) \div 10 ]
        bd == [ i \in 1..n |-> (5 * SinAt(1, 4, tt[i])) \div 10 ]
        mo == [ i \in 1..n |-> (3 * SinAt(1, 10, tt[i])) \div 10 ]
        pl == [ i \in 1..n |-> (2 * SinAt(50, 1, tt[i])) \div 10 ]
        hf == [ i \in 1..n |-> (randn(s, n)[i] * AmpScale) \div 100 ]
    IN [ t |-> tt, clean |-> c, baseline_drift |-> bd, motion |-> mo,
         powerline |-> pl, hf_noise |-> hf,
         noisy |-> SumNoisy(c, bd, mo, pl, hf),
         rng |-> RngAfter(s, n) ]

NoGen == [ t |-> <<>>, clean |-> <<>>, baseline_drift |-> <<>>, motion |-> <<>>,
           powerline |-> <<>>, hf_noise |-> <<>>, noisy |-> <<>>, rng |-> 0 ]

----------------------------------------------------------------------------
(* Sample arrays.  n is the length, x the base samples, ops the            *)
(* coefficient sets applied to x by filtfilt, oldest first.  An array with *)
(* ops = <<>> has the sample values x themselves and n = Len(x).           *)

MkArray(x) == [ n |-> Len(x), x |-> x, ops |-> <<>> ]
NoArray == MkArray(<<>>)

----------------------------------------------------------------------------
(* scipy.signal design routines.  The result is an exception or the        *)
(* coefficient pair (b, a), carried as the family, the normalised          *)
(* critical frequency and the order (quality factor for a notch).          *)

Coeffs(kind, w, p) == [ kind |-> kind, w |-> w, p |-> p ]
NoCoeffs == Coeffs("none", <<0, 1>>, 0)

\* max(len(a), len(b))
ntaps(ba) == IF ba.kind = "notch" THEN 3 ELSE ba.p + 1

\* signal.iirnotch(w0, Q): rejects w0 > 1 and w0 < 0, then divides w0 by Q
iirnotch(w0, Q) ==
    IF RLt(<<1, 1>>, w0) \/ RLt(w0, <<0, 1>>)
    THEN [ err |-> "ValueError", ba |-> NoCoeffs ]
    ELSE IF Q = 0
    THEN [ err |-> "ZeroDivisionError", ba |-> NoCoeffs ]
    ELSE [ err |-> "", ba |-> Coeffs("notch", w0, Q) ]

\* signal.butter(N, Wn, btype): rejects a negative order, Wn <= 0 and Wn >= 1
butter(N, Wn, btype) ==
    IF N < 0 \/ RLe(Wn, <<0, 1>>) \/ RLe(<<1, 1>>, Wn)
    THEN [ err |-> "ValueError", ba |-> NoCoeffs ]
    ELSE [ err |-> "", ba |-> Coeffs(btype, Wn, N) ]

\* the design lines of notch_filter, high_pass_filter and low_pass_filter
notch_design(notch_freq, quality_factor) ==
    iirnotch(RDiv(notch_freq, nyquist), quality_factor)

high_pass_design(cutoff_freq, order) ==
    butter(order, RDiv(cutoff_freq, nyquist), "high")

low_pass_design(cutoff_freq, order) ==
    butter(order, RDiv(cutoff_freq, nyquist), "low")

----------------------------------------------------------------------------
(* signal.filtfilt(b, a, data) on the heap h.  The input is extended by    *)
(* edge = 3 * ntaps samples at each end, filtered forward and backward,    *)
(* and the extensions are cut off again; the result is a new array.        *)

Fail(h, e) == [ err |-> e, heap |-> h, ref |-> 0 ]

\* variant: the extensions are not cut off
filtfilt_untrimmed(h, ba, data) ==
    LET x    == h[data]
        edge == 3 * ntaps(ba)
        y    == [ n |-> x.n + 2 * edge, x |-> x.x, ops |-> Append(x.ops, ba) ]
    IN IF x.n <= edge
       THEN Fail(h, "ValueError")
       ELSE [ err |-> "", heap |-> Append(h, y), ref |-> Len(h) + 1 ]

\* variant: the result is written into the input array
filtfilt_inplace(h, ba, data) ==
    LET x    == h[data]
        edge == 3 * ntaps(ba)
        y    == [ n |-> x.n, x |-> x.x, ops |-> Append(x.ops, ba) ]
    IN IF x.n <= edge
       THEN Fail(h, "ValueError")
       ELSE [ err |-> "", heap |-> [ h EXCEPT ![data] = y ], ref |-> data ]

filtfilt(h, ba, data) ==
    LET x    == h[data]
        edge == 3 * ntaps(ba)
        ext  == x.n + 2 * edge
        y    == [ n |-> ext - 2 * edge, x |-> x.x, ops |-> Append(x.ops, ba) ]
    IN IF x.n <= edge
       THEN Fail(h, "ValueError")
       ELSE [ err |-> "", heap |-> Append(h, y), ref |-> Len(h) + 1 ]

notch_filter(h, data, notch_freq, quality_factor) ==
    LET d == notch_design(notch_freq, quality_factor)
    IN IF d.err # "" THEN Fail(h, d.err) ELSE filtfilt(h, d.ba, data)

high_pass_filter(h, data, cutoff_freq, order) ==
    LET d == high_pass_design(cutoff_freq, order)
    IN IF d.err # "" THEN Fail(h, d.err) ELSE filtfilt(h, d.ba, data)

low_pass_filter(h, data, cutoff_freq, order) ==
    LET d == low_pass_design(cutoff_freq, order)
    IN IF d.err # "" THEN Fail(h, d.err) ELSE filtfilt(h, d.ba, data)

----------------------------------------------------------------------------
(* compute_spectrum *)

\* fftfreq(N, 1/fs): bins 0 .. (N-1)//2, then -(N//2) .. -1, times fs/N
fftfreq(N) ==
    [ j \in 1..N |->
        IF j - 1 <= (N - 1) \div 2 THEN <<(j - 1) * fs, N>>
                                   ELSE <<(j - 1 - N) * fs, N>> ]

\* variant: xf > 0
positive_freq_idx_strict(xf) ==
    SelectSeq([ j \in 1..Len(xf) |-> j ], LAMBDA j : RLt(<<0, 1>>, xf[j]))

\* positive_freq_idx = xf >= 0, as the ascending list of selected indices
positive_freq_idx(xf) ==
    SelectSeq([ j \in 1..Len(xf) |-> j ], LAMBDA j : RLe(<<0, 1>>, xf[j]))

\* fft(data)[k] as <<real part, imaginary part>>, k = 0 .. N-1
fft(x, k) ==
    LET N == Len(x)
    IN << SumSeq([ m \in 1..N |-> x[m] * CosTurns(k * (m - 1), N) ]) \div AmpScale,
          (0 - SumSeq([ m \in 1..N |-> x[m] * SinTurns(k * (m - 1), N) ])) \div AmpScale >>

\* np.abs of a complex number
ComplexAbs(z) == IsqrtIn(z[1] * z[1] + z[2] * z[2], 0, Abs(z[1]) + Abs(z[2]))

\* 2.0/N * np.abs(yf[positive_freq_idx])
Magnitude(x, idx) ==
    [ k \in 1..Len(idx) |-> (2 * ComplexAbs(fft(x, idx[k] - 1))) \div Len(x) ]

NoSpectrum == [ done |-> FALSE, err |-> "", freqs |-> <<>>, magnitude |-> NoArray ]

compute_spectrum(data) ==
    LET N   == data.n
        xf  == fftfreq(N)
        idx == positive_freq_idx(xf)
    IN IF N = 0
       THEN [ done |-> TRUE, err |-> "ValueError", freqs |-> <<>>, magnitude |-> NoArray ]
       ELSE [ done |-> TRUE, err |-> "",
              freqs |-> [ k \in 1..Len(idx) |-> xf[idx[k]] ],
              magnitude |->
                  IF data.ops = <<>>
                  THEN MkArray(Magnitude(data.x, idx))
                  ELSE [ n |-> Len(idx), x |-> data.x, ops |-> data.ops ] ]

----------------------------------------------------------------------------
(* The SNR lines of demonstrate_filtering *)

\* a - b on numpy arrays: equal lengths, or one of them of length 1
Subtract(a, b) ==
    LET n == IF a.n = 1 THEN b.n ELSE a.n
    IN IF ~(a.n = b.n \/ a.n = 1 \/ b.n = 1)
       THEN [ err |-> "ValueError", arr |-> NoArray ]
       ELSE IF a.ops = <<>> /\ b.ops = <<>>
       THEN [ err |-> "",
              arr |-> MkArray([ i \in 1..n |->
                         a.x[IF a.n = 1 THEN 1 ELSE i] - b.x[IF b.n = 1 THEN 1 ELSE i] ]) ]
       ELSE [ err |-> "", arr |-> [ n |-> n, x |-> a.x, ops |-> a.ops \o b.ops ] ]

\* np.var: the mean squared deviation, as the rational <<sum (n x_i - S)^2, n^3>>
np_var(a) ==
    IF a.ops # <<>> THEN [ class |-> "symbolic", v |-> <<0, 1>> ]
    ELSE IF a.n = 0 THEN [ class |-> "nan", v |-> <<0, 1>> ]
    ELSE LET S == SumSeq(a.x)
         IN [ class |-> "num",
              v |-> << SumSeq([ i \in 1..a.n |-> (a.n * a.x[i] - S) * (a.n * a.x[i] - S) ]),
                       a.n * a.n * a.n >> ]

\* 10 * np.log10(vs / vn) in IEEE arithmetic: the class of the result and, when
\* it is finite, the ratio whose logarithm it is
Snr(vs, vn, ops) ==
    LET R(c, q) == [ class |-> c, ratio |-> q, ops |-> ops ]
    IN IF vs.class = "symbolic" \/ vn.class = "symbolic" THEN R("symbolic", <<0, 1>>)
       ELSE IF vs.class = "nan" \/ vn.class = "nan" THEN R("nan", <<0, 1>>)
       ELSE IF vn.v[1] = 0 /\ vs.v[1] = 0 THEN R("nan", <<0, 1>>)
       ELSE IF vn.v[1] = 0 THEN R("inf", <<0, 1>>)
       ELSE IF vs.v[1] = 0 THEN R("-inf", <<0, 1>>)
       ELSE IF vs.v[2] = vn.v[2] THEN R("finite", <<vs.v[1], vn.v[1]>>)
       ELSE R("finite", <<vs.v[1] * vn.v[2], vs.v[2] * vn.v[1]>>)

NoSnr == [ class |-> "unset", ratio |-> <<0, 1>>, ops |-> <<>> ]
NoReport == [ done |-> FALSE, err |-> "", snr_before |-> NoSnr, snr_after |-> NoSnr ]

Evaluate(cl, no, fi) ==
    LET noise_before == Subtract(no, cl)
        noise_after  == Subtract(fi, cl)
    IN IF noise_before.err # ""
       THEN [ done |-> TRUE, err |-> noise_before.err,
              snr_before |-> NoSnr, snr_after |-> NoSnr ]
       ELSE IF noise_after.err # ""
       THEN [ done |-> TRUE, err |-> noise_after.err,
              snr_before |-> NoSnr, snr_after |-> NoSnr ]
       ELSE [ done |-> TRUE, err |-> "",
              snr_before |-> Snr(np_var(cl), np_var(noise_before.arr), <<>>),
              snr_after  |-> Snr(np_var(cl), np_var(noise_after.arr), fi.ops) ]

----------------------------------------------------------------------------
(* Initial values of the variables a scenario does not use *)

pipeVars == <<err, cfg, t, heap, noisy, clean, step1, step2, filtered, log,
              spec_noisy, spec_filtered, snr, genNoisy, genClean>>
genVars  == <<gen1, gen2>>
unitVars == <<dspec, dres, sdata, sres, ebuf, eres>>

NoDesign == [ done |-> FALSE, err |-> "", ba |-> NoCoeffs ]

PipeIdle ==
    /\ err = "" /\ t = <<>> /\ heap = <<>>
    /\ noisy = 0 /\ clean = 0 /\ step1 = 0 /\ step2 = 0 /\ filtered = 0
    /\ log = <<>>
    /\ spec_noisy = NoSpectrum /\ spec_filtered = NoSpectrum /\ snr = NoReport
    /\ genNoisy = NoArray /\ genClean = NoArray

GenIdle == gen1 = NoGen /\ gen2 = NoGen

UnitIdle ==
    /\ dspec = [ kind |-> "notch", freq |-> <<50, 1>>, p |-> DefaultQ ]
    /\ dres = NoDesign
    /\ sdata = <<>> /\ sres = NoSpectrum
    /\ ebuf = [ clean |-> <<>>, noisy |-> <<>>, filtered |-> <<>> ]
    /\ eres = NoReport

----------------------------------------------------------------------------
(* demonstrate_filtering, one action per statement *)

DefaultCfg == [ notch_freq |-> <<50, 1>>, hp_cutoff |-> <<1, 2>>, lp_cutoff |-> <<10, 1>> ]

PipelineCfgs ==
    [ notch_freq : {<<50, 1>>, <<600, 1>>},
      hp_cutoff  : {<<1, 2>>, <<600, 1>>},
      lp_cutoff  : {<<10, 1>>, <<600, 1>>} ]

Init ==
    /\ pc = "generate"
    /\ duration \in 1..MaxDurTicks
    /\ rng \in 0..MaxSeed
    /\ cfg \in PipelineCfgs
    /\ PipeIdle /\ GenIdle /\ UnitIdle

\* variant: the exception is caught and the stage's input is passed on
StageOutcomeSwallow(r, arg, next) ==
    IF r.err # ""
    THEN [ pc |-> next, err |-> r.err, ref |-> arg, heap |-> r.heap ]
    ELSE [ pc |-> next, err |-> "", ref |-> r.ref, heap |-> r.heap ]

\* an exception raised by a statement leaves demonstrate_filtering at once;
\* otherwise the result is bound and the next statement runs
StageOutcome(r, arg, next) ==
    IF r.err # ""
    THEN [ pc |-> "failed", err |-> r.err, ref |-> 0, heap |-> r.heap ]
    ELSE [ pc |-> next, err |-> "", ref |-> r.ref, heap |-> r.heap ]

Generate ==
    /\ pc = "generate"
    /\ LET g == generate_ppg_signal(rng, duration)
       IN /\ t' = g.t
          /\ heap' = <<MkArray(g.noisy), MkArray(g.clean)>>
          /\ noisy' = 1
          /\ clean' = 2
          /\ rng' = g.rng
          /\ genNoisy' = MkArray(g.noisy)
          /\ genClean' = MkArray(g.clean)
    /\ pc' = "notch"
    /\ UNCHANGED <<err, duration, cfg, step1, step2, filtered, log,
                   spec_noisy, spec_filtered, snr>>
    /\ UNCHANGED genVars /\ UNCHANGED unitVars

\* the argument each cascade statement passes to its filter function
NotchArg == noisy

\* variant: the high-pass stage is fed the noisy buffer
HighPassArgNoisy == noisy

HighPassArg == step1
LowPassArg == step2

ApplyNotch ==
    /\ pc = "notch"
    /\ LET r == notch_filter(heap, NotchArg, cfg.notch_freq, DefaultQ)
           o == StageOutcome(r, NotchArg, "highpass")
       IN /\ heap' = o.heap
          /\ step1' = o.ref
          /\ err' = o.err
          /\ pc' = o.pc
          /\ log' = Append(log, [ stage |-> "notch", arg |-> NotchArg, res |-> o.ref ])
    /\ UNCHANGED <<duration, cfg, rng, t, noisy, clean, step2, filtered,
                   spec_noisy, spec_filtered, snr, genNoisy, genClean>>
    /\ UNCHANGED genVars /\ UNCHANGED unitVars

ApplyHighPass ==
    /\ pc = "highpass"
    /\ LET r == high_pass_filter(heap, HighPassArg, cfg.hp_cutoff, HpOrder)
           o == StageOutcome(r, HighPassArg, "lowpass")
       IN /\ heap' = o.heap
          /\ step2' = o.ref
          /\ err' = o.err
          /\ pc' = o.pc
          /\ log' = Append(log, [ stage |-> "highpass", arg |-> HighPassArg, res |-> o.ref ])
    /\ UNCHANGED <<duration, cfg, rng, t, noisy, clean, step1, filtered,
                   spec_noisy, spec_filtered, snr, genNoisy, genClean>>
    /\ UNCHANGED genVars /\ UNCHANGED unitVars

ApplyLowPass ==
    /\ pc = "lowpass"
    /\ LET r == low_pass_filter(heap, LowPassArg, cfg.lp_cutoff, LpOrder)
           o == StageOutcome(r, LowPassArg, "spec_noisy")
       IN /\ heap' = o.heap
          /\ filtered' = o.ref
          /\ err' = o.err
          /\ pc' = o.pc
          /\ log' = Append(log, [ stage |-> "lowpass", arg |-> LowPassArg, res |-> o.ref ])
    /\ UNCHANGED <<duration, cfg, rng, t, noisy, clean, step1, step2,
                   spec_noisy, spec_filtered, snr, genNoisy, genClean>>
    /\ UNCHANGED genVars /\ UNCHANGED unitVars

SpectrumNoisy ==
    /\ pc = "spec_noisy"
    /\ LET r == compute_spectrum(heap[noisy])
       IN /\ spec_noisy' = r
          /\ err' = r.err
          /\ pc' = IF r.err # "" THEN "failed" ELSE "spec_filtered"
    /\ UNCHANGED <<duration, cfg, rng, t, heap, noisy, clean, step1, step2, filtered,
                   log, spec_filtered, snr, genNoisy, genClean>>
    /\ UNCHANGED genVars /\ UNCHANGED unitVars

SpectrumFiltered ==
    /\ pc = "spec_filtered"
    /\ LET r == compute_spectrum(heap[filtered])
       IN /\ spec_filtered' = r
          /\ err' = r.err
          /\ pc' = IF r.err # "" THEN "failed" ELSE "snr"
    /\ UNCHANGED <<duration, cfg, rng, t, heap, noisy, clean, step1, step2, filtered,
                   log, spec_noisy, snr, genNoisy, genClean>>
    /\ UNCHANGED genVars /\ UNCHANGED unitVars

EvaluateSnr ==
    /\ pc = "snr"
    /\ LET r == Evaluate(heap[clean], heap[noisy], heap[filtered])
       IN /\ snr' = r
          /\ err' = r.err
          /\ pc' = IF r.err # "" THEN "failed" ELSE "done"
    /\ UNCHANGED <<duration, cfg, rng, t, heap, noisy, clean, step1, step2, filtered,
                   log, spec_noisy, spec_filtered, genNoisy, genClean>>
    /\ UNCHANGED genVars /\ UNCHANGED unitVars

Next ==
    \/ Generate
    \/ ApplyNotch
    \/ ApplyHighPass
    \/ ApplyLowPass
    \/ SpectrumNoisy
    \/ SpectrumFiltered
    \/ EvaluateSnr

Spec == Init /\ [][Next]_vars

----------------------------------------------------------------------------
(* Two successive calls of generate_ppg_signal with the same argument *)

InitGen ==
    /\ pc = "call1"
    /\ duration \in 1..MaxDurTicks
    /\ rng \in 0..MaxSeed
    /\ cfg = DefaultCfg
    /\ PipeIdle /\ GenIdle /\ UnitIdle

GenCall1 ==
    /\ pc = "call1"
    /\ gen1' = generate_ppg_signal(rng, duration)
    /\ rng' = gen1'.rng
    /\ pc' = "call2"
    /\ UNCHANGED <<duration, gen2>>
    /\ UNCHANGED pipeVars /\ UNCHANGED unitVars

GenCall2 ==
    /\ pc = "call2"
    /\ gen2' = generate_ppg_signal(rng, duration)
    /\ rng' = gen2'.rng
    /\ pc' = "called"
    /\ UNCHANGED <<duration, gen1>>
    /\ UNCHANGED pipeVars /\ UNCHANGED unitVars

NextGen == GenCall1 \/ GenCall2

SpecGen == InitGen /\ [][NextGen]_vars

----------------------------------------------------------------------------
(* The design lines applied to one filter specification *)

DesignFreqs ==
    { <<0 - 1, 1>>, <<0, 1>>, <<1, 2>>, <<10, 1>>, <<50, 1>>, <<499, 1>>,
      nyquist, <<600, 1>> }

\* p is the order of a high-pass or low-pass, the quality factor of a notch
DesignSpecs ==
    [ kind : {"notch", "high", "low"}, freq : DesignFreqs,
      p : ((0 - 1)..MaxOrder) \cup {DefaultQ} ]

InitDesign ==
    /\ pc = "design"
    /\ dspec \in DesignSpecs
    /\ dres = NoDesign
    /\ sdata = <<>> /\ sres = NoSpectrum
    /\ ebuf = [ clean |-> <<>>, noisy |-> <<>>, filtered |-> <<>> ]
    /\ eres = NoReport
    /\ duration = 1 /\ rng = 0 /\ cfg = DefaultCfg
    /\ PipeIdle /\ GenIdle

DesignOf(sp) ==
    IF sp.kind = "notch" THEN notch_design(sp.freq, sp.p)
    ELSE IF sp.kind = "high" THEN high_pass_design(sp.freq, sp.p)
    ELSE low_pass_design(sp.freq, sp.p)

Design ==
    /\ pc = "design"
    /\ dres' = [ done |-> TRUE, err |-> DesignOf(dspec).err, ba |-> DesignOf(dspec).ba ]
    /\ pc' = "designed"
    /\ UNCHANGED <<duration, rng, dspec, sdata, sres, ebuf, eres>>
    /\ UNCHANGED pipeVars /\ UNCHANGED genVars

NextDesign == Design

SpecDesign == InitDesign /\ [][NextDesign]_vars

----------------------------------------------------------------------------
(* compute_spectrum applied to one buffer *)

Buffers(vals, lo, hi) == UNION { [ 1..n -> vals ] : n \in lo..hi }

InitSpectrum ==
    /\ pc = "analyze"
    /\ sdata \in Buffers({0 - AmpScale, 0, AmpScale}, 0, MaxSpecLen)
    /\ sres = NoSpectrum
    /\ dspec = [ kind |-> "notch", freq |-> <<50, 1>>, p |-> DefaultQ ]
    /\ dres = NoDesign
    /\ ebuf = [ clean |-> <<>>, noisy |-> <<>>, filtered |-> <<>> ]
    /\ eres = NoReport
    /\ duration = 1 /\ rng = 0 /\ cfg = DefaultCfg
    /\ PipeIdle /\ GenIdle

Analyze ==
    /\ pc = "analyze"
    /\ sres' = compute_spectrum(MkArray(sdata))
    /\ pc' = "analyzed"
    /\ UNCHANGED <<duration, rng, dspec, dres, sdata, ebuf, eres>>
    /\ UNCHANGED pipeVars /\ UNCHANGED genVars

NextSpectrum == Analyze

SpecSpectrum == InitSpectrum /\ [][NextSpectrum]_vars

----------------------------------------------------------------------------
(* The SNR lines applied to three buffers *)

InitEval ==
    /\ pc = "evaluate"
    /\ ebuf \in [ clean    : Buffers({0, AmpScale}, 1, MaxEvalLen),
                  noisy    : Buffers({0, AmpScale}, 1, MaxEvalLen),
                  filtered : Buffers({0, AmpScale}, 1, MaxEvalLen) ]
    /\ eres = NoReport
    /\ dspec = [ kind |-> "notch", freq |-> <<50, 1>>, p |-> DefaultQ ]
    /\ dres = NoDesign
    /\ sdata = <<>> /\ sres = NoSpectrum
    /\ duration = 1 /\ rng = 0 /\ cfg = DefaultCfg
    /\ PipeIdle /\ GenIdle

EvaluateBuffers ==
    /\ pc = "evaluate"
    /\ eres' = Evaluate(MkArray(ebuf.clean), MkArray(ebuf.noisy), MkArray(ebuf.filtered))
    /\ pc' = "evaluated"
    /\ UNCHANGED <<duration, rng, dspec, dres, sdata, sres, ebuf>>
    /\ UNCHANGED pipeVars /\ UNCHANGED genVars

NextEval == EvaluateBuffers

SpecEval == InitEval /\ [][NextEval]_vars

----------------------------------------------------------------------------
(* Properties of demonstrate_filtering (specification Spec) *)

StageOrder == <<"notch", "highpass", "lowpass">>

\* C1: the cascade runs notch, then high-pass, then low-pass, each once; the
\* notch stage receives the noisy buffer, each later stage receives the result
\* of the stage before it, and the cascade's result is the low-pass result.
C1_CascadeOrder ==
    /\ Len(log) <= 3
    /\ \A i \in 1..Len(log) : log[i].stage = StageOrder[i]
    /\ filtered # 0 =>
        /\ log = << [ stage |-> "notch",    arg |-> noisy, res |-> step1 ],
                    [ stage |-> "highpass", arg |-> step1, res |-> step2 ],
                    [ stage |-> "lowpass",  arg |-> step2, res |-> filtered ] >>
        /\ heap[filtered].x = heap[noisy].x
        /\ Len(heap[filtered].ops) = 3
        /\ heap[filtered].ops[1].kind = "notch"
        /\ heap[filtered].ops[2].kind = "high"
        /\ heap[filtered].ops[3].kind = "low"
        /\ heap[step1].ops = SubSeq(heap[filtered].ops, 1, 1)
        /\ heap[step2].ops = SubSeq(heap[filtered].ops, 1, 2)

C1_Witness == pc = "done" /\ filtered # 0 /\ Len(log) = 3

\* C3: when a stage's design or application raises, the run ends in that
\* error: the failing stage is the last one run, no filtered buffer exists and
\* neither a spectrum nor an SNR has been computed.
C3_FailureEndsCascade ==
    /\ (pc = "failed") <=> (err # "")
    /\ err # "" =>
        /\ Len(log) >= 1
        /\ log[Len(log)].res = 0
        /\ \A i \in 1..(Len(log) - 1) : log[i].res # 0
        /\ filtered = 0
        /\ Len(log) <= 2 => step2 = 0
        /\ Len(log) <= 1 => step1 = 0
        /\ Len(heap) = 2 + (Len(log) - 1)
        /\ ~spec_noisy.done /\ ~spec_filtered.done /\ ~snr.done

\* a run in which the notch stage succeeded and the high-pass stage raised
C3_Witness == pc = "failed" /\ Len(log) = 2 /\ step1 # 0 /\ err = "ValueError"

\* C8: every successful filter application returns a buffer of the length of
\* its argument, so the buffer has the noisy buffer's length after each stage
\* and filtered, noisy and clean have equal length at the SNR lines.
C8_LengthPreserved ==
    /\ \A i \in 1..Len(log) :
          log[i].res # 0 => heap[log[i].res].n = heap[log[i].arg].n
    /\ step1 # 0 => heap[step1].n = heap[noisy].n
    /\ step2 # 0 => heap[step2].n = heap[noisy].n
    /\ filtered # 0 => heap[filtered].n = heap[noisy].n
    /\ snr.done =>
        /\ heap[filtered].n = heap[clean].n
        /\ heap[noisy].n = heap[clean].n
        /\ snr.err = ""

C8_Witness == snr.done /\ filtered # 0 /\ heap[filtered].n > 3 * (LpOrder + 1)

\* C9: no stage writes to its argument: each successful filter call returns a
\* reference different from every array bound before, the noisy and clean
\* arrays keep the values the generator returned, and the noisy spectrum and
\* SNR-before are those of the as-generated arrays.
C9_InputsUnchanged ==
    noisy # 0 =>
        /\ heap[noisy] = genNoisy
        /\ heap[clean] = genClean
        /\ \A i \in 1..Len(log) :
              log[i].res # 0 =>
                  /\ log[i].res # log[i].arg
                  /\ log[i].res \notin {noisy, clean}
                  /\ \A j \in 1..(i - 1) : log[i].res # log[j].res
        /\ spec_noisy.done => spec_noisy = compute_spectrum(genNoisy)
        /\ snr.done =>
              snr.snr_before =
                  Snr(np_var(genClean), np_var(Subtract(genNoisy, genClean).arr), <<>>)

C9_Witness ==
    /\ pc = "done" /\ filtered # 0
    /\ heap[noisy] = genNoisy
    /\ snr.snr_before.class = "finite"
    /\ spec_noisy.magnitude.n >= 2

----------------------------------------------------------------------------
(* Properties of generate_ppg_signal (specification SpecGen) *)

\* C5: two calls of the generator with the same duration return identical
\* clean buffers and identical noisy buffers.
C5_SameArgumentsSameBuffers ==
    pc = "called" => gen1.clean = gen2.clean /\ gen1.noisy = gen2.noisy

\* C6: sample i of the time grid is at i / sample_rate and the last sample is
\* strictly before the duration.
C6_UniformTimeGrid ==
    pc # "call1" =>
        /\ \A i \in 1..Len(gen1.t) : REq(gen1.t[i], <<i - 1, fs>>)
        /\ Len(gen1.t) >= 1 => RLt(gen1.t[Len(gen1.t)], <<duration, DurDen>>)

\* C7: the clean and noisy buffers both have length floor(sample_rate *
\* duration), and the noisy buffer is the element-wise sum of the clean buffer,
\* the baseline drift, the motion artifact, the line interference and the
\* broadband noise.
C7_LengthAndSum ==
    pc # "call1" =>
        LET n == Len(gen1.clean)
        IN /\ n * DurDen <= fs * duration
           /\ fs * duration < (n + 1) * DurDen
           /\ Len(gen1.noisy) = n
           /\ Len(gen1.t) = n
           /\ Len(gen1.baseline_drift) = n /\ Len(gen1.motion) = n
           /\ Len(gen1.powerline) = n /\ Len(gen1.hf_noise) = n
           /\ \A i \in 1..n :
                 gen1.noisy[i] = gen1.clean[i] + gen1.baseline_drift[i] + gen1.motion[i]
                                 + gen1.powerline[i] + gen1.hf_noise[i]

\* a call whose duration is not a whole number of sample periods
C7_Witness ==
    /\ pc = "called"
    /\ Len(gen1.noisy) >= 2
    /\ (fs * duration) % DurDen # 0
    /\ \E i \in 1..Len(gen1.noisy) : gen1.hf_noise[i] # 0 /\ gen1.powerline[i] # 0

----------------------------------------------------------------------------
(* Properties of the filter design (specification SpecDesign) *)

InRange(sp) ==
    /\ RLt(<<0, 1>>, sp.freq) /\ RLt(sp.freq, nyquist)
    /\ sp.p >= 1

\* C2: design fails, and yields no coefficients, exactly when the centre or
\* cutoff frequency is not strictly between 0 and sample_rate/2, or the order
\* is < 1, or the quality factor is <= 0.
C2_DesignRejectsOutOfRange ==
    dres.done =>
        /\ InRange(dspec) <=> dres.err = ""
        /\ dres.err # "" => dres.ba = NoCoeffs

----------------------------------------------------------------------------
(* Properties of compute_spectrum (specification SpecSpectrum) *)

\* C10: for a non-empty buffer of length N the frequency and magnitude
\* sequences have equal length, bin k has frequency k * sample_rate / N, the
\* frequencies start at 0 and ascend strictly, exactly the bins below
\* sample_rate / 2 are kept, and every magnitude is >= 0.
C10_OneSidedSpectrum ==
    (sres.done /\ Len(sdata) >= 1) =>
        LET N == Len(sdata)
            F == sres.freqs
            M == sres.magnitude
        IN /\ sres.err = ""
           /\ Len(F) = M.n /\ Len(M.x) = M.n
           /\ Len(F) >= 1
           /\ REq(F[1], <<0, 1>>)
           /\ \A k \in 1..Len(F) : REq(F[k], <<(k - 1) * fs, N>>) /\ M.x[k] >= 0
           /\ \A k \in 1..(Len(F) - 1) : RLt(F[k], F[k + 1])
           /\ 2 * (Len(F) - 1) < N /\ N <= 2 * Len(F)
           /\ M.x[1] = (2 * Abs(SumSeq(sdata))) \div N

\* an even-length buffer, whose bin N/2 is dropped, with a non-zero bin
C10_Witness ==
    /\ sres.done /\ Len(sdata) = 4
    /\ Len(sres.freqs) = 2
    /\ sres.magnitude.x[2] > 0

----------------------------------------------------------------------------
(* Properties of the SNR lines (specification SpecEval) *)

ZeroVariance(a, b) ==
    LET r == Subtract(MkArray(a), MkArray(b))
    IN r.err = "" /\ np_var(r.arr).v[1] = 0

====
